---- MODULE Spec2Model ----
(***************************************************************************)
(* A model of gpustat: the aggregator and renderer of src/gpustat.py       *)
(* (GPUStat, GPUStatCollection, print_gpustat) and the command line and    *)
(* watch loop of src/gpustat/cli.py (print_gpustat, loop_gpustat, main).   *)
(*                                                                         *)
(* A Python str is a sequence of one-character strings (an ANSI colour     *)
(* code is one element), so that int(), `'PID' in line`, the truth value   *)
(* of a str and concatenation are computed, not assumed.  A Python dict    *)
(* is a function on its keys.  A raised exception is the "exc" field of    *)
(* an operator's result.                                                   *)
(*                                                                         *)
(* Three specifications share the variables: SpecAgg (one query and its    *)
(* rendering by src/gpustat.py), SpecRepr (process_repr on its own) and    *)
(* SpecCli (main and the watch loop of src/gpustat/cli.py).                *)
(***************************************************************************)
EXTENDS Integers, Sequences, FiniteSets, TLC

VARIABLES
    apc,        \* src/gpustat.py: "start", "queried", "exited" ("idle": not run)
    env,        \* what the external commands answered to this query
    rp,         \* what running_processes() gave inside this query
    snap,       \* what new_query() gave
    aout,       \* lines written to standard output
    aerr,       \* what was written to standard error
    aexit,      \* exit status of the process (-1 while running)
    rpc,        \* process_repr: "start", "done" ("idle": not run)
    rin,        \* process_repr's arguments
    rout,       \* process_repr's result
    cpc,        \* cli.py: "main", "loop", "fetch", "render", "sleep", "exited"
    args,       \* cli.py: the parsed command line
    interval,   \* loop_gpustat's interval
    tick,       \* the tick of the watch loop under way (0: none yet)
    now,        \* time.time()
    query_start,\* loop_gpustat's query_start
    took,       \* the time this tick's query and render have taken so far
    gpu_stats,  \* print_gpustat's gpu_stats
    written,    \* lines of gpu_stats written so far by print_formatted
    cout,       \* standard output: the lines written, with their tick
    cerr,       \* standard error
    cexit,      \* exit status of the process (-1 while running)
    nquery,     \* how many times new_query() was called
    sleeps,     \* for each tick that ended: its duration and its sleep
    interrupted,\* where a KeyboardInterrupt arrived ("" when none did)
    failed      \* the tick whose query raised (-1 when none did)

aggVars == <<apc, env, rp, snap, aout, aerr, aexit>>
reprVars == <<rpc, rin, rout>>
cliVars == <<cpc, args, interval, tick, now, query_start, took, gpu_stats, written,
             cout, cerr, cexit, nquery, sleeps, interrupted, failed>>

(***************************************************************************)
(* Bounds of the model.                                                    *)
(***************************************************************************)
MaxGpus == 2
MaxProcs == 2

SeqsUpTo(S, n) == UNION {[1..k -> S] : k \in 0..n}

Min(a, b) == IF a < b THEN a ELSE b
Max(a, b) == IF a > b THEN a ELSE b

(***************************************************************************)
(* Python built-ins used by the code.                                      *)
(***************************************************************************)
Digits == <<"0", "1", "2", "3", "4", "5", "6", "7", "8", "9">>

IsDigit(c) == \E d \in 1..10 : Digits[d] = c

DigitValue(c) == (CHOOSE d \in 1..10 : Digits[d] = c) - 1

RECURSIVE DecimalValue(_)
DecimalValue(s) ==
    IF Len(s) = 0 THEN 0
    ELSE 10 * DecimalValue(SubSeq(s, 1, Len(s) - 1)) + DigitValue(s[Len(s)])

\* int(s) of a stripped str: the value, or ValueError when s is not a
\* decimal numeral.
PyInt(s) ==
    IF Len(s) > 0 /\ \A i \in 1..Len(s) : IsDigit(s[i])
    THEN [exc |-> "none", val |-> DecimalValue(s)]
    ELSE [exc |-> "ValueError", val |-> 0]

\* str(n) of a natural number.
RECURSIVE PyStr(_)
PyStr(n) ==
    IF n < 10 THEN <<Digits[n + 1]>>
    ELSE PyStr(n \div 10) \o <<Digits[(n % 10) + 1]>>

\* `sub in s` for two str.
PyIn(sub, s) ==
    \E i \in 1..(Len(s) - Len(sub) + 1) : SubSeq(s, i, i + Len(sub) - 1) = sub

\* dict(zip(cols, row)): zip stops at the shorter of the two.
ZipDict(cols, row) ==
    [c \in {cols[i] : i \in 1..Min(Len(cols), Len(row))} |->
        row[CHOOSE i \in 1..Len(cols) : cols[i] = c]]

\* d.update(e)
DictUpdate(d, e) ==
    [k \in DOMAIN d \cup DOMAIN e |-> IF k \in DOMAIN e THEN e[k] ELSE d[k]]

RemoveAt(s, j) == SubSeq(s, 1, j - 1) \o SubSeq(s, j + 1, Len(s))

(***************************************************************************)
(* ANSIColors, src/gpustat.py 25-41.                                       *)
(***************************************************************************)
RESET == <<"ESC[0m">>
WHITE == <<"ESC[1m">>
RED == <<"ESC[0;31m">>
GREEN == <<"ESC[0;32m">>
YELLOW == <<"ESC[0;33m">>
BLUE == <<"ESC[0;34m">>
CYAN == <<"ESC[0;36m">>
GRAY == <<"ESC[1;30m">>
BOLD_RED == <<"ESC[1;31m">>
BOLD_GREEN == <<"ESC[1;32m">>
BOLD_YELLOW == <<"ESC[1;33m">>

ColourCodes ==
    {"ESC[0m", "ESC[1m", "ESC[0;31m", "ESC[0;32m", "ESC[0;33m", "ESC[0;34m",
     "ESC[0;36m", "ESC[1;30m", "ESC[1;31m", "ESC[1;32m", "ESC[1;33m"}

(***************************************************************************)
(* The external commands.  nvidia-smi answers a query with an exit status  *)
(* and rows of stripped fields; ps answers with an exit status and lines   *)
(* of whitespace-separated fields.                                         *)
(***************************************************************************)
NA == <<"N", "/", "A">>

RowA == <<<<"0">>, "GPU-A", <<"G", "0">>, <<"4", "5">>, <<"1", "0">>,
          <<"1", "0", "0">>, <<"8", "0", "0", "0">>>>
RowB == <<<<"1">>, "GPU-B", <<"G", "1">>, <<"6", "5">>, <<"3", "0">>,
          <<"2", "0", "0">>, <<"8", "0", "0", "0">>>>
RowBadTemp == [RowB EXCEPT ![4] = NA]
RowBadMem == [RowB EXCEPT ![6] = NA]
RowShort == SubSeq(RowB, 1, 6)
RowNoUuid == SubSeq(RowB, 1, 1)

\* The lines nvidia-smi --query-gpu may print, split at ',' and stripped;
\* <<>> is an empty line.
GpuRows == {RowA, RowB, RowBadTemp, RowBadMem, RowShort, RowNoUuid, <<>>}

Uuids == {"GPU-A", "GPU-B"}
Pids == {<<"7">>, <<"1", "2">>}
Memories == {<<"5", "0">>}

\* The lines nvidia-smi --query-compute-apps may print.
ProcRows == {<<u, p, m>> : u \in Uuids, p \in Pids, m \in Memories}

Users == {<<"a", "l">>}
Comms == {<<"p", "y">>, <<"P", "I", "D", "d">>}

PsHeader == <<<<"P", "I", "D">>, <<"U", "S", "E", "R">>,
              <<"C", "O", "M", "M", "A", "N", "D">>>>

\* The pids ps is asked about.
AskedPids(rows) == {DecimalValue(rows[i][2]) : i \in 1..Len(rows)}

RECURSIVE PsLines(_, _)
PsLines(alive, todo) ==
    IF todo = {} THEN <<>>
    ELSE LET n == CHOOSE x \in todo : \A y \in todo : x <= y
         IN (IF alive[n] = <<>> THEN <<>>
             ELSE <<<<PyStr(n), alive[n][1], alive[n][2]>>>>)
            \o PsLines(alive, todo \ {n})

\* What ps -o pid,user,comm -p <pids> may print: the header, then one line
\* for each pid that is still running (alive[n] = <<>>: pid n has exited).
PsOutputs(pids) ==
    {<<PsHeader>> \o PsLines(alive, pids) :
        alive \in [pids -> {<<>>} \cup (Users \X Comms)]}

\* The exit status of ps: 0, and with procps 1 when none of the pids asked
\* about is running (other implementations answer 0).
PsStatuses(lines) == IF Len(lines) = 1 THEN {0, 1} ELSE {0}

\* What the external commands may answer to one query in which nvidia-smi
\* prints the device lines g and the process lines p: every outcome of ps,
\* and (told once, with the output that is then not read left empty) the
\* failure of either nvidia-smi command.
Answers(g, p) ==
    UNION {{[gpu_status |-> 0, gpu_rows |-> g, proc_status |-> 0,
             proc_rows |-> p, ps_status |-> st, ps_lines |-> ls] :
               st \in PsStatuses(ls)} :
           ls \in PsOutputs(AskedPids(p))}
    \cup
    (IF Len(p) = 0
     THEN {[gpu_status |-> 0, gpu_rows |-> g, proc_status |-> 1,
            proc_rows |-> <<>>, ps_status |-> 0, ps_lines |-> <<>>]}
     ELSE {})
    \cup
    (IF Len(p) = 0 /\ Len(g) = 0
     THEN {[gpu_status |-> 1, gpu_rows |-> <<>>, proc_status |-> 0,
            proc_rows |-> <<>>, ps_status |-> 0, ps_lines |-> <<>>]}
     ELSE {})

(***************************************************************************)
(* GPUStatCollection.running_processes, src/gpustat.py 155-200.            *)
(***************************************************************************)
proc_query_columns == <<"gpu_uuid", "pid", "used_memory">>

\* 164-171: one dict for each line that is not empty.
RECURSIVE ProcessEntries(_)
ProcessEntries(rows) ==
    IF Len(rows) = 0 THEN <<>>
    ELSE (IF Len(Head(rows)) = 0 THEN <<>>
          ELSE <<ZipDict(proc_query_columns, Head(rows))>>)
         \o ProcessEntries(Tail(rows))

\* 181-182: the lines of ps the loop skips.
SkipPsLine(line) ==
    Len(line) = 0 \/ \E i \in 1..Len(line) : PyIn(<<"P", "I", "D">>, line[i])

\* Python's None.
None == [none |-> TRUE]

\* 181-187: pid_map after the lines of ps are read.
RECURSIVE ReadPs(_, _)
ReadPs(pid_map, lines) ==
    IF Len(lines) = 0 THEN pid_map
    ELSE LET line == Head(lines) IN
         IF SkipPsLine(line) THEN ReadPs(pid_map, Tail(lines))
         ELSE LET pid == PyInt(line[1]).val
                  info == [user |-> line[2], comm |-> line[3]]
              IN ReadPs([k \in DOMAIN pid_map \cup {pid} |->
                            IF k = pid THEN info ELSE pid_map[k]],
                        Tail(lines))

\* 192-196: the fate of an entry whose pid ps did not list.
DropUnresolved(store, cur, i) ==
    LET j == CHOOSE k \in 1..Len(cur) :
                 /\ store[cur[k]] = store[i]
                 /\ \A l \in 1..(k - 1) : store[cur[l]] # store[i]
    IN RemoveAt(cur, j)

\* 190-198: the loop over a copy of process_entries.  store holds the dict
\* objects by their place in the copy, cur the objects process_entries
\* holds now: list.remove takes out the first object equal to its argument.
RECURSIVE AddProcessInformation(_, _, _, _)
AddProcessInformation(store, cur, pid_map, i) ==
    IF i > Len(store) THEN [k \in 1..Len(cur) |-> store[cur[k]]]
    ELSE LET pid == PyInt(store[i]["pid"]).val IN
         IF pid_map[pid] = None
         THEN AddProcessInformation(store, DropUnresolved(store, cur, i),
                                    pid_map, i + 1)
         ELSE AddProcessInformation(
                  [store EXCEPT ![i] = DictUpdate(store[i], pid_map[pid])],
                  cur, pid_map, i + 1)

running_processes(e) ==
    IF e.proc_status # 0 THEN [exc |-> "CalledProcessError", val |-> <<>>]
    ELSE LET process_entries == ProcessEntries(e.proc_rows)
             n == Len(process_entries)
         IN
         IF \E i \in 1..n : PyInt(process_entries[i]["pid"]).exc # "none"
         THEN [exc |-> "ValueError", val |-> <<>>]
         ELSE LET pid_map0 ==
                      [k \in {PyInt(process_entries[i]["pid"]).val :
                                 i \in 1..n} |-> None]
              IN
              IF DOMAIN pid_map0 # {} /\ e.ps_status # 0
              THEN [exc |-> "CalledProcessError", val |-> <<>>]
              ELSE LET pid_map == IF DOMAIN pid_map0 # {}
                                  THEN ReadPs(pid_map0, e.ps_lines)
                                  ELSE pid_map0
                   IN [exc |-> "none",
                       val |-> AddProcessInformation(
                                   process_entries,
                                   [k \in 1..n |-> k], pid_map, 1)]

(***************************************************************************)
(* GPUStat and GPUStatCollection, src/gpustat.py 44-153 and 202-211.       *)
(* A collection is the OrderedDict gpus: keys in insertion order, and for  *)
(* each key the GPUStat object (entry, processes) it holds.                *)
(***************************************************************************)
gpu_query_columns == <<"index", "uuid", "name", "temperature.gpu",
                       "utilization.gpu", "memory.used", "memory.total">>

\* 46-50
GPUStat(entry) == [entry |-> entry, processes |-> <<>>]

\* 144-151: one GPUStat for each line that is not empty.
RECURSIVE GpuList(_)
GpuList(rows) ==
    IF Len(rows) = 0 THEN <<>>
    ELSE (IF Len(Head(rows)) = 0 THEN <<>>
          ELSE <<GPUStat(ZipDict(gpu_query_columns, Head(rows)))>>)
         \o GpuList(Tail(rows))

EmptyGpus == [keys |-> <<>>, obj |-> <<>>]

\* self.gpus[uuid] = g of an OrderedDict: a new key goes last, a known key
\* keeps its place.
OrderedDictSet(gpus, uuid, g) ==
    [keys |-> IF uuid \in DOMAIN gpus.obj THEN gpus.keys
              ELSE Append(gpus.keys, uuid),
     obj |-> [k \in DOMAIN gpus.obj \cup {uuid} |->
                 IF k = uuid THEN g ELSE gpus.obj[k]]]

\* 121-123; g.uuid (109-111) raises KeyError when the entry has no uuid.
RECURSIVE FillGpus(_, _)
FillGpus(gpus, gpu_list) ==
    IF Len(gpu_list) = 0 THEN [exc |-> "none", gpus |-> gpus]
    ELSE LET g == Head(gpu_list) IN
         IF "uuid" \notin DOMAIN g.entry
         THEN [exc |-> "KeyError", gpus |-> gpus]
         ELSE FillGpus(OrderedDictSet(gpus, g.entry["uuid"], g),
                       Tail(gpu_list))

\* 113-115, on the object gpus holds under key g.
add_process(gpus, g, p) ==
    [gpus EXCEPT !.obj[g].processes = Append(@, p)]

\* The local variable g before its first assignment.
Unbound == "<unbound>"

\* 205-209: g after the try statement.  A KeyError is passed over, which
\* leaves g as it was.
LookupGpu(gpus, p, g) ==
    IF p["gpu_uuid"] \in DOMAIN gpus.obj THEN p["gpu_uuid"] ELSE g

\* 204-210: the loop, g being the key of the object the local g refers to.
RECURSIVE AttachProcesses(_, _, _)
AttachProcesses(gpus, processes, g) ==
    IF Len(processes) = 0 THEN [exc |-> "none", gpus |-> gpus]
    ELSE LET p == Head(processes)
             g2 == LookupGpu(gpus, p, g)
         IN IF g2 = Unbound
            THEN [exc |-> "UnboundLocalError", gpus |-> gpus]
            ELSE AttachProcesses(add_process(gpus, g2, p),
                                 Tail(processes), g2)

\* 202-211, given what running_processes() returned or raised.
update_process_information(gpus, procs) ==
    IF procs.exc # "none" THEN [exc |-> procs.exc, gpus |-> gpus]
    ELSE AttachProcesses(gpus, procs.val, Unbound)

\* 120-130
GPUStatCollection(gpu_list, procs) ==
    LET filled == FillGpus(EmptyGpus, gpu_list) IN
    IF filled.exc # "none" THEN filled
    ELSE update_process_information(filled.gpus, procs)

\* Whether new_query() reaches running_processes() at all.
CallsRunningProcesses(e) ==
    /\ e.gpu_status = 0
    /\ FillGpus(EmptyGpus, GpuList(e.gpu_rows)).exc = "none"

\* 132-153
new_query(e) ==
    IF e.gpu_status # 0 THEN [exc |-> "CalledProcessError", gpus |-> EmptyGpus]
    ELSE GPUStatCollection(GpuList(e.gpu_rows), running_processes(e))

(***************************************************************************)
(* GPUStat.print_to, src/gpustat.py 55-107.                                *)
(***************************************************************************)
RECURSIVE Spaces(_)
Spaces(n) == IF n <= 0 THEN <<>> ELSE <<" ">> \o Spaces(n - 1)

\* format(s, '<w'), what {:w} does to a str, and format(s, '>w')
PadRight(s, w) == s \o Spaces(w - Len(s))
PadLeft(s, w) == Spaces(w - Len(s)) \o s

\* 63-80, given the two int() of 68 and 75.
Colors(temperature, utilization, with_colors) ==
    IF ~with_colors
    THEN [k \in {"C0", "C1", "CName", "CTemp", "CMemU", "CMemT", "CMemP",
                 "CUser", "CUtil"} |-> <<>>]
    ELSE [C0 |-> RESET, C1 |-> CYAN, CName |-> BLUE,
          CTemp |-> IF temperature < 50 THEN RED ELSE BOLD_RED,
          CMemU |-> BOLD_YELLOW, CMemT |-> YELLOW, CMemP |-> YELLOW,
          CUser |-> GRAY,
          CUtil |-> IF utilization < 30 THEN GREEN ELSE BOLD_GREEN]

\* 97: p.get('comm', p['pid'])
CommOrPid(p) == IF "comm" \in DOMAIN p THEN p["comm"] ELSE p["pid"]

\* 96 without its test of r.
CmdSeparatorAlways(r) == <<":">>

\* 96: the separator between the user and the command.
CmdSeparator(r) == IF Len(r) > 0 THEN <<":">> ELSE <<>>

\* 93
ShowsUser(show_cmd, show_user) == ~show_cmd \/ show_user

\* 91-101
process_repr(p, colors, show_cmd, show_user, show_pid) ==
    LET r1 == IF ShowsUser(show_cmd, show_user)
              THEN colors["CUser"] \o p["user"] \o colors["C0"]
              ELSE <<>>
        r2 == IF show_cmd
              THEN r1 \o CmdSeparator(r1)
                      \o colors["C1"] \o CommOrPid(p) \o colors["C0"]
              ELSE r1
        r3 == IF show_pid THEN r2 \o <<"/">> \o p["pid"] ELSE r2
    IN r3 \o <<"(">> \o colors["CMemP"] \o p["used_memory"] \o <<"M">>
          \o colors["C0"] \o <<")">>

\* 103-104
RECURSIVE ProcessReprs(_, _, _)
ProcessReprs(processes, colors, o) ==
    IF Len(processes) = 0 THEN <<>>
    ELSE <<" ">> \o process_repr(Head(processes), colors,
                                 o.show_cmd, o.show_user, o.show_pid)
         \o ProcessReprs(Tail(processes), colors, o)

\* 83-89
DeviceRepr(entry, colors, gpuname_width) ==
    colors["C1"] \o <<"[">> \o entry["index"] \o <<"]">> \o colors["C0"]
    \o <<" ">> \o colors["CName"] \o PadRight(entry["name"], gpuname_width)
    \o colors["C0"] \o <<" ", "|">>
    \o colors["CTemp"] \o PadLeft(entry["temperature.gpu"], 3)
    \o <<"'", "C">> \o colors["C0"] \o <<",", " ">>
    \o colors["CUtil"] \o PadLeft(entry["utilization.gpu"], 3)
    \o <<" ", "%">> \o colors["C0"] \o <<" ", "|", " ">>
    \o colors["C1"] \o colors["CMemU"] \o PadLeft(entry["memory.used"], 5)
    \o colors["C0"] \o <<" ", "/", " ">>
    \o colors["CMemT"] \o PadLeft(entry["memory.total"], 5)
    \o colors["C0"] \o <<" ", "M", "B">> \o <<" ", "|">>

\* 55-107: the line written, or the exception raised before anything is.
print_to(g, o, gpuname_width) ==
    LET e == g.entry IN
    IF "temperature.gpu" \notin DOMAIN e THEN [exc |-> "KeyError", val |-> <<>>]
    ELSE IF PyInt(e["temperature.gpu"]).exc # "none"
    THEN [exc |-> "ValueError", val |-> <<>>]
    ELSE IF "utilization.gpu" \notin DOMAIN e
    THEN [exc |-> "KeyError", val |-> <<>>]
    ELSE IF PyInt(e["utilization.gpu"]).exc # "none"
    THEN [exc |-> "ValueError", val |-> <<>>]
    ELSE IF \E c \in {"index", "name", "memory.used", "memory.total"} :
                c \notin DOMAIN e
    THEN [exc |-> "KeyError", val |-> <<>>]
    ELSE LET colors == Colors(PyInt(e["temperature.gpu"]).val,
                              PyInt(e["utilization.gpu"]).val, ~o.no_color)
         IN [exc |-> "none",
             val |-> DeviceRepr(e, colors, gpuname_width)
                     \o ProcessReprs(g.processes, colors, o)]

(***************************************************************************)
(* GPUStatCollection.print_formatted, src/gpustat.py 229-253.              *)
(***************************************************************************)
\* 233-238
HeaderMsg(no_color) ==
    IF no_color THEN <<"h", "o", "s", "t", " ", " ", "t", "i", "m", "e">>
    ELSE WHITE \o <<"h", "o", "s", "t">> \o RESET
         \o <<" ", " ", "t", "i", "m", "e">>

\* 243
RECURSIVE MaxNameLen(_, _, _)
MaxNameLen(gpus, i, acc) ==
    IF i > Len(gpus.keys) THEN acc
    ELSE MaxNameLen(gpus, i + 1,
                    Max(acc, Len(gpus.obj[gpus.keys[i]].entry["name"])))

MinNameWidth == 16

\* 244-251: the lines written so far are out.
RECURSIVE PrintBody(_, _, _, _, _)
PrintBody(gpus, o, width, i, out) ==
    IF i > Len(gpus.keys) THEN [exc |-> "none", out |-> out]
    ELSE LET r == print_to(gpus.obj[gpus.keys[i]], o, width) IN
         IF r.exc # "none" THEN [exc |-> r.exc, out |-> out]
         ELSE PrintBody(gpus, o, width, i + 1, Append(out, r.val))

print_formatted(gpus, o) ==
    LET out == <<HeaderMsg(o.no_color)>> IN
    IF \E i \in 1..Len(gpus.keys) :
           "name" \notin DOMAIN gpus.obj[gpus.keys[i]].entry
    THEN [exc |-> "KeyError", out |-> out]
    ELSE PrintBody(gpus, o, MaxNameLen(gpus, 1, MinNameWidth), 1, out)

(***************************************************************************)
(* print_gpustat and main, src/gpustat.py 277-314: one run of the program. *)
(***************************************************************************)
vars == <<aggVars, reprVars, cliVars>>

\* 302-312: the flags of the command line.
Options ==
    [no_color : BOOLEAN, show_cmd : BOOLEAN, show_user : BOOLEAN,
     show_pid : BOOLEAN]

NoRepr == [none |-> TRUE]

ReprIdle == rpc = "idle" /\ rin = NoRepr /\ rout = <<>>

CliIdle ==
    /\ cpc = "idle" /\ args = None /\ interval = 0 /\ tick = 0 /\ now = 0
    /\ query_start = 0 /\ took = 0 /\ gpu_stats = None /\ written = 0
    /\ cout = <<>> /\ cerr = <<>> /\ cexit = -1 /\ nquery = 0 /\ sleeps = <<>>
    /\ interrupted = "" /\ failed = -1

AggIdle ==
    /\ apc = "idle" /\ env = None /\ rp = None /\ snap = None
    /\ aout = <<>> /\ aerr = <<>> /\ aexit = -1

InitAgg ==
    /\ apc = "start" /\ env = None /\ rp = None /\ snap = None
    /\ aout = <<>> /\ aerr = <<>> /\ aexit = -1
    /\ ReprIdle
    /\ CliIdle

\* 286: the call of new_query(), with what the external commands answer.
PrintGpustatQuery ==
    /\ apc = "start"
    /\ \E g \in SeqsUpTo(GpuRows, MaxGpus), p \in SeqsUpTo(ProcRows, MaxProcs) :
       \E e \in Answers(g, p) :
        /\ env' = e
        /\ rp' = IF CallsRunningProcesses(e) THEN running_processes(e)
                 ELSE [exc |-> "not called", val |-> <<>>]
        /\ snap' = new_query(e)
    /\ apc' = "queried"
    /\ UNCHANGED <<aout, aerr, aexit, reprVars, cliVars>>

\* 287-289: the except clause.
PrintGpustatExcept ==
    /\ apc = "queried"
    /\ snap.exc = "CalledProcessError"
    /\ aerr' = Append(aerr, "Error on calling nvidia-smi")
    /\ aexit' = 1
    /\ apc' = "exited"
    /\ UNCHANGED <<env, rp, snap, aout, reprVars, cliVars>>

\* An exception no except clause names leaves main: the interpreter writes
\* the traceback to standard error and exits with status 1.
PrintGpustatUncaught ==
    /\ apc = "queried"
    /\ snap.exc \notin {"none", "CalledProcessError"}
    /\ aerr' = Append(aerr, "Traceback")
    /\ aexit' = 1
    /\ apc' = "exited"
    /\ UNCHANGED <<env, rp, snap, aout, reprVars, cliVars>>

\* 291-296: the snapshot is rendered; an exception raised on the way leaves
\* main as above.
PrintGpustatFormatted ==
    /\ apc = "queried"
    /\ snap.exc = "none"
    /\ \E o \in Options :
        LET r == print_formatted(snap.gpus, o) IN
        /\ aout' = r.out
        /\ aerr' = IF r.exc = "none" THEN aerr ELSE Append(aerr, "Traceback")
        /\ aexit' = IF r.exc = "none" THEN 0 ELSE 1
    /\ apc' = "exited"
    /\ UNCHANGED <<env, rp, snap, reprVars, cliVars>>

NextAgg ==
    \/ PrintGpustatQuery
    \/ PrintGpustatExcept
    \/ PrintGpustatUncaught
    \/ PrintGpustatFormatted

SpecAgg == InitAgg /\ [][NextAgg]_vars

(***************************************************************************)
(* process_repr on its own: every process entry and every combination of   *)
(* the flags.                                                              *)
(***************************************************************************)
ProcessEntriesOf ==
    {[gpu_uuid |-> u, pid |-> p, used_memory |-> m, user |-> us, comm |-> c] :
        u \in Uuids, p \in Pids, m \in Memories, us \in Users, c \in Comms}
    \cup
    {[gpu_uuid |-> u, pid |-> p, used_memory |-> m, user |-> us] :
        u \in Uuids, p \in Pids, m \in Memories, us \in Users}

InitRepr ==
    /\ rpc = "start"
    /\ rin \in [p : ProcessEntriesOf, o : Options]
    /\ rout = <<>>
    /\ AggIdle
    /\ CliIdle

\* 103-104: print_to calls process_repr(p) with the colours of 63-80.
ProcessRepr ==
    /\ rpc = "start"
    /\ rout' = process_repr(rin.p, Colors(45, 10, ~rin.o.no_color),
                            rin.o.show_cmd, rin.o.show_user, rin.o.show_pid)
    /\ rpc' = "done"
    /\ UNCHANGED <<rin, aggVars, cliVars>>

NextRepr == ProcessRepr

SpecRepr == InitRepr /\ [][NextRepr]_vars

(***************************************************************************)
(* src/gpustat/cli.py: main, loop_gpustat and print_gpustat.               *)
(*                                                                         *)
(* Time is counted in units of 0.05 s.  gpustat.core is not among the      *)
(* sources: new_query() is what it can be to its caller (it returns a      *)
(* snapshot, raises an Exception, or a KeyboardInterrupt arrives while it  *)
(* runs), and print_formatted writes as src/gpustat.py 229-253 does, a     *)
(* header, then one line for each device, stopping at a device whose       *)
(* print_to raises.                                                        *)
(***************************************************************************)
MaxInterval == 3
MaxDevices == 2
MaxTicks == 2
MaxDelay == 1

\* cli.py 144: 0.1 s
MinInterval == 2
\* cli.py 142: 1.0 s
DefaultInterval == 20

\* -i/--interval: not given (the default, 0), given without a value
\* (None), or given with a value.
IntervalArgs ==
    {[none |-> TRUE, val |-> 0]}
    \cup {[none |-> FALSE, val |-> v] : v \in (-1)..MaxInterval}

ArgSets == [json : BOOLEAN, debug : BOOLEAN, interval : IntervalArgs]

\* 141-142
ParsedInterval(a) ==
    IF a.interval.none THEN DefaultInterval ELSE a.interval.val

\* 143
WatchMode(a) == ParsedInterval(a) > 0

\* 144 without the floor.
EffectiveIntervalNoFloor(v) == v

\* 144
EffectiveInterval(v) == Max(MinInterval, v)

\* 145, were it to come before 141-142 gave --interval its value.
RejectsJsonWithValueOnly(a) == a.json /\ ~a.interval.none

\* 145
RejectsJson(a) == a.json

InitCli ==
    /\ cpc = "main"
    /\ args \in ArgSets
    /\ interval = 0 /\ tick = 0 /\ now = 0 /\ query_start = 0 /\ took = 0
    /\ gpu_stats = None /\ written = 0 /\ cout = <<>> /\ cerr = <<>>
    /\ cexit = -1 /\ nquery = 0 /\ sleeps = <<>>
    /\ interrupted = "" /\ failed = -1
    /\ AggIdle
    /\ ReprIdle

\* 141-153
Main ==
    /\ cpc = "main"
    /\ IF WatchMode(args)
       THEN /\ interval' = EffectiveInterval(ParsedInterval(args))
            /\ IF RejectsJson(args)
               THEN /\ cerr' = Append(cerr, "Error: --json and --interval/-i can't be used together.")
                    /\ cexit' = 1
                    /\ cpc' = "exited"
               ELSE /\ cpc' = "loop"
                    /\ UNCHANGED <<cerr, cexit>>
       ELSE /\ cpc' = "fetch"
            /\ UNCHANGED <<interval, cerr, cexit>>
    /\ UNCHANGED <<args, tick, now, query_start, took, gpu_stats, written, cout,
                   nquery, sleeps, interrupted, failed, aggVars, reprVars>>

\* A line of standard output: the tick it was written in, what it is, and
\* for a line of a snapshot which line of how many devices.
Line(kind, i, n) == [tick |-> tick, kind |-> kind, idx |-> i, of |-> n]

\* 39-44: a tick begins.
LoopTick ==
    /\ cpc = "loop"
    /\ tick < MaxTicks
    /\ tick' = tick + 1
    /\ query_start' = now
    /\ took' = 0
    /\ cout' = Append(cout, [tick |-> tick + 1, kind |-> "move", idx |-> 0,
                             of |-> 0])
    /\ cpc' = "fetch"
    /\ UNCHANGED <<args, interval, now, gpu_stats, written, cerr, cexit,
                   nquery, sleeps, interrupted, failed, aggVars, reprVars>>

\* 13-14: new_query() returns a snapshot of n devices; print_to raises for
\* device bad of them (0: for none).
QueryReturns ==
    /\ cpc = "fetch"
    /\ nquery' = nquery + 1
    /\ \E dt \in 0..MaxDelay : now' = now + dt /\ took' = took + dt
    /\ \E n \in 0..MaxDevices : \E bad \in 0..n :
           gpu_stats' = [n |-> n, bad |-> bad]
    /\ written' = 0
    /\ cpc' = "render"
    /\ UNCHANGED <<args, interval, tick, query_start, cout, cerr, cexit,
                   sleeps, interrupted, failed, aggVars, reprVars>>

\* 27, were the except clause of 52 to catch SystemExit too and go on.
SysExitCaughtByLoop == cpc' = "loop" /\ cexit' = cexit

\* 27: sys.exit(1).  SystemExit is no KeyboardInterrupt, so it leaves
\* loop_gpustat (52) and main, and the process exits with status 1.
SysExit == cpc' = "exited" /\ cexit' = 1

\* 13-27: new_query() raises an Exception.  With --debug the traceback is
\* written too; should that raise, the exception is raised again (26) and
\* leaves main in place of SystemExit: the interpreter reports it and the
\* exit status is 1 all the same.  The handler is one step: no interrupt
\* is placed between the raise and sys.exit(1).
QueryRaises ==
    /\ cpc = "fetch"
    /\ nquery' = nquery + 1
    /\ \E dt \in 0..MaxDelay : now' = now + dt /\ took' = took + dt
    /\ failed' = tick
    /\ cerr' = cerr \o <<"Error on querying NVIDIA devices. Use --debug flag for details">>
                    \o (IF args.debug THEN <<"Traceback">> ELSE <<>>)
    /\ SysExit
    /\ UNCHANGED <<args, interval, tick, query_start, gpu_stats, written,
                   cout, sleeps, interrupted, aggVars, reprVars>>

\* 52-53, were the handler to pass and the loop to go on.
LoopExceptPass == cpc' = "loop" /\ cexit' = cexit

\* 52-53: return 0; main returns and the process exits with status 0.
LoopExcept == cpc' = "exited" /\ cexit' = 0

\* A KeyboardInterrupt arrives in the try statement of 40-51: while
\* new_query() runs (no except clause of 15 names it), while
\* print_formatted writes, or in time.sleep.
KeyboardInterrupt ==
    /\ tick > 0
    /\ cpc \in {"fetch", "render", "sleep"}
    /\ interrupted = ""
    /\ interrupted' = cpc
    /\ nquery' = IF cpc = "fetch" THEN nquery + 1 ELSE nquery
    /\ LoopExcept
    /\ UNCHANGED <<args, interval, tick, now, query_start, took, gpu_stats,
                   written, cout, cerr, sleeps, failed, aggVars, reprVars>>

\* The same outside the loop: nothing catches it, and the interpreter
\* ends the process (status 1, or 130 as if killed by SIGINT).
UncaughtKeyboardInterrupt ==
    /\ tick = 0
    /\ cpc \in {"fetch", "render"}
    /\ interrupted = ""
    /\ interrupted' = cpc
    /\ nquery' = IF cpc = "fetch" THEN nquery + 1 ELSE nquery
    /\ cerr' = Append(cerr, "KeyboardInterrupt")
    /\ cexit' \in {1, 130}
    /\ cpc' = "exited"
    /\ UNCHANGED <<args, interval, tick, now, query_start, took, gpu_stats,
                   written, cout, sleeps, failed, aggVars, reprVars>>

\* 29-30: print_json writes the snapshot as one record.
PrintJson ==
    /\ cpc = "render"
    /\ args.json
    /\ cout' = Append(cout, Line("json", 0, gpu_stats.n))
    /\ cexit' = 0
    /\ cpc' = "exited"
    /\ UNCHANGED <<args, interval, tick, now, query_start, took, gpu_stats,
                   written, cerr, nquery, sleeps, interrupted, failed,
                   aggVars, reprVars>>

\* src/gpustat.py 240: the header.
PrintHeader ==
    /\ cpc = "render"
    /\ ~args.json
    /\ written = 0
    /\ cout' = Append(cout, Line("header", 0, gpu_stats.n))
    /\ written' = 1
    /\ UNCHANGED <<cpc, args, interval, tick, now, query_start, took, gpu_stats,
                   cerr, cexit, nquery, sleeps, interrupted, failed,
                   aggVars, reprVars>>

\* src/gpustat.py 244-251, were the loop to stop one device short.
LinesOfAllButLast(n) == n

\* src/gpustat.py 244-251: how many lines print_formatted writes for a
\* snapshot of n devices, the header counted.
LinesOf(n) == n + 1

\* src/gpustat.py 244-251: the line of the next device.
PrintGpu ==
    /\ cpc = "render"
    /\ ~args.json
    /\ written >= 1
    /\ written < LinesOf(gpu_stats.n)
    /\ gpu_stats.bad # written
    /\ cout' = Append(cout, Line("gpu", written, gpu_stats.n))
    /\ written' = written + 1
    /\ \E dt \in 0..MaxDelay : now' = now + dt /\ took' = took + dt
    /\ UNCHANGED <<cpc, args, interval, tick, query_start, gpu_stats, cerr,
                   cexit, nquery, sleeps, interrupted, failed, aggVars,
                   reprVars>>

\* print_to raises for the next device: nothing catches the exception (32
\* is outside the try of 13, and 52 names KeyboardInterrupt alone).
PrintRaises ==
    /\ cpc = "render"
    /\ ~args.json
    /\ written >= 1
    /\ written < LinesOf(gpu_stats.n)
    /\ gpu_stats.bad = written
    /\ cerr' = Append(cerr, "Traceback")
    /\ cexit' = 1
    /\ cpc' = "exited"
    /\ UNCHANGED <<args, interval, tick, now, query_start, took, gpu_stats,
                   written, cout, nquery, sleeps, interrupted, failed,
                   aggVars, reprVars>>

\* 32, 153: print_formatted returns to main.
PrintReturnsToMain ==
    /\ cpc = "render"
    /\ ~args.json
    /\ tick = 0
    /\ written = LinesOf(gpu_stats.n)
    /\ cexit' = 0
    /\ cpc' = "exited"
    /\ UNCHANGED <<args, interval, tick, now, query_start, took, gpu_stats,
                   written, cout, cerr, nquery, sleeps, interrupted, failed,
                   aggVars, reprVars>>

\* 49
SleepDuration(query_duration) == interval - query_duration

\* 46-51: print_formatted returns to the loop, which works out how long
\* to sleep.
LoopAfterPrint ==
    /\ cpc = "render"
    /\ tick > 0
    /\ written = LinesOf(gpu_stats.n)
    /\ cout' = Append(cout, Line("clear_eos", 0, 0))
    /\ LET query_duration == now - query_start
           sleep_duration == SleepDuration(query_duration)
       IN /\ sleeps' = Append(sleeps,
                 [tick |-> tick, query_duration |-> query_duration,
                  slept |-> sleep_duration > 0,
                  sleep_duration |-> sleep_duration])
          /\ cpc' = IF sleep_duration > 0 THEN "sleep" ELSE "loop"
    /\ UNCHANGED <<args, interval, tick, now, query_start, took, gpu_stats,
                   written, cerr, cexit, nquery, interrupted, failed,
                   aggVars, reprVars>>

\* 51: time.sleep(sleep_duration) returns.
Sleep ==
    /\ cpc = "sleep"
    /\ now' = now + sleeps[Len(sleeps)].sleep_duration
    /\ cpc' = "loop"
    /\ UNCHANGED <<args, interval, tick, query_start, took, gpu_stats, written,
                   cout, cerr, cexit, nquery, sleeps, interrupted, failed,
                   aggVars, reprVars>>

NextCli ==
    \/ Main
    \/ LoopTick
    \/ QueryReturns
    \/ QueryRaises
    \/ KeyboardInterrupt
    \/ UncaughtKeyboardInterrupt
    \/ PrintJson
    \/ PrintHeader
    \/ PrintGpu
    \/ PrintRaises
    \/ PrintReturnsToMain
    \/ LoopAfterPrint
    \/ Sleep

SpecCli == InitCli /\ [][NextCli]_vars

(***************************************************************************)
(* The aggregator's properties, under SpecAgg.                             *)
(***************************************************************************)
RECURSIVE Count(_, _)
Count(seq, x) ==
    IF Len(seq) = 0 THEN 0
    ELSE (IF Head(seq) = x THEN 1 ELSE 0) + Count(Tail(seq), x)

RECURSIVE SumOver(_, _, _)
SumOver(keys, obj, x) ==
    IF Len(keys) = 0 THEN 0
    ELSE Count(obj[Head(keys)].processes, x) + SumOver(Tail(keys), obj, x)

SnapshotBuilt == apc # "start" /\ snap.exc = "none"

\* The identities of the devices of the query.
DeviceUuids ==
    {env.gpu_rows[i][2] : i \in {j \in 1..Len(env.gpu_rows) :
                                    Len(env.gpu_rows[j]) >= 2}}

\* The resolved process rows whose device is not in the snapshot.
OrphanRows ==
    {rp.val[i] : i \in {j \in 1..Len(rp.val) :
                           rp.val[j]["gpu_uuid"] \notin DeviceUuids}}

\* C1: in every snapshot built, a process row is attached to at most one
\* device, at most once, and only to the device whose uuid is the row's
\* gpu_uuid.
C1_AttachedToOwnDevice ==
    SnapshotBuilt =>
        /\ \A u \in DOMAIN snap.gpus.obj :
               \A i \in 1..Len(snap.gpus.obj[u].processes) :
                   snap.gpus.obj[u].processes[i]["gpu_uuid"]
                       = snap.gpus.obj[u].entry["uuid"]
        /\ \A i \in 1..Len(rp.val) :
               SumOver(snap.gpus.keys, snap.gpus.obj, rp.val[i])
                   <= Count(rp.val, rp.val[i])

\* C2: when a resolved process row names a device that is not in the
\* snapshot, building the snapshot raises nothing and the row is dropped.
C2_OrphanDropped ==
    (apc # "start" /\ rp.exc = "none" /\ OrphanRows # {}) =>
        /\ snap.exc = "none"
        /\ \A x \in OrphanRows :
               SumOver(snap.gpus.keys, snap.gpus.obj, x) = 0

\* The pids ps listed, and what it said of pid n.
ResolvedPids ==
    {DecimalValue(env.ps_lines[i][1]) : i \in 2..Len(env.ps_lines)}

OwnerOf(n) ==
    LET i == CHOOSE j \in 2..Len(env.ps_lines) :
                 DecimalValue(env.ps_lines[j][1]) = n
    IN [user |-> env.ps_lines[i][2], comm |-> env.ps_lines[i][3]]

RECURSIVE ResolvedRows(_)
ResolvedRows(rows) ==
    IF Len(rows) = 0 THEN <<>>
    ELSE LET r == Head(rows)
             n == DecimalValue(r[2])
         IN (IF n \in ResolvedPids
             THEN <<[gpu_uuid |-> r[1], pid |-> r[2], used_memory |-> r[3],
                     user |-> OwnerOf(n).user, comm |-> OwnerOf(n).comm]>>
             ELSE <<>>)
            \o ResolvedRows(Tail(rows))

\* C3: running_processes raises nothing and returns, in their order, the
\* rows whose pid ps resolved, each with its user and command; the rows
\* whose pid ps did not resolve are removed, also when it resolved none.
C3_UnresolvedRemoved ==
    (apc # "start" /\ rp.exc # "not called" /\ env.proc_status = 0) =>
        /\ rp.exc = "none"
        /\ rp.val = ResolvedRows(env.proc_rows)

\* A device row lacks a field, or a numeric field of it is no number.
Malformed(row) ==
    /\ Len(row) > 0
    /\ \/ Len(row) < Len(gpu_query_columns)
       \/ \E i \in 4..7 : PyInt(row[i]).exc # "none"

\* C7: whenever a device row is malformed, new_query fails, so that the
\* program reports a provider failure, exits with status 1 and renders
\* nothing.
C7_MalformedRowFailsQuery ==
    (apc # "start" /\ env.gpu_status = 0
       /\ \E i \in 1..Len(env.gpu_rows) : Malformed(env.gpu_rows[i])) =>
        /\ snap.exc # "none"
        /\ apc = "exited" => (aexit = 1 /\ aout = <<>>)

(***************************************************************************)
(* process_repr's property, under SpecRepr.                                *)
(***************************************************************************)
NotColour(c) == c \notin ColourCodes

StripColours(str) == SelectSeq(str, NotColour)

UserPresent(o) == o.show_user \/ ~o.show_cmd

ExpectedToken(p, o) ==
    (IF UserPresent(o) THEN p["user"] ELSE <<>>)
    \o (IF o.show_cmd /\ UserPresent(o) THEN <<":">> ELSE <<>>)
    \o (IF o.show_cmd
        THEN (IF "comm" \in DOMAIN p THEN p["comm"] ELSE p["pid"])
        ELSE <<>>)
    \o (IF o.show_pid THEN <<"/">> \o p["pid"] ELSE <<>>)
    \o <<"(">> \o p["used_memory"] \o <<"M", ")">>

\* C8: the token of a process is [user][:cmd][/pid](usedMemM): the user
\* when show-user is set or show-cmd is not, the command when show-cmd is
\* set, after a ':' when the user is there too, '/pid' when show-pid is
\* set, and the memory last, always.
C8_ProcessToken ==
    rpc = "done" =>
        /\ StripColours(rout) = ExpectedToken(rin.p, rin.o)
        /\ rin.o.no_color => rout = ExpectedToken(rin.p, rin.o)

C8_Witness ==
    /\ rpc = "done"
    /\ rin.o.show_cmd /\ rin.o.show_user /\ rin.o.show_pid
    /\ "comm" \in DOMAIN rin.p
    /\ Len(rout) > 0

(***************************************************************************)
(* The command line's and the watch loop's properties, under SpecCli.      *)
(***************************************************************************)
QueryErrorMessage ==
    "Error on querying NVIDIA devices. Use --debug flag for details"

\* C4: when new_query() raises, the error is written to standard error,
\* nothing of a snapshot is written for that cycle, the process exits with
\* status 1, and in watch mode no later tick begins.
C4_ProviderFailureExits ==
    failed # -1 =>
        /\ cpc = "exited" /\ cexit = 1
        /\ Len(cerr) > 0 /\ cerr[1] = QueryErrorMessage
        /\ tick = failed
        /\ nquery = Max(failed, 1)
        /\ \A i \in 1..Len(cout) :
               cout[i].tick = failed => cout[i].kind = "move"

C4_Witness ==
    /\ failed = MaxTicks /\ cpc = "exited"
    /\ \E i \in 1..Len(cout) : cout[i].kind = "gpu"

\* C5: --json with a watch interval above 0, --interval without a value
\* included, ends main with exit status 1, no snapshot queried or written.
C5_JsonWithIntervalRejected ==
    (cpc # "main" /\ args.json
       /\ (args.interval.none \/ args.interval.val > 0)) =>
        /\ cpc = "exited" /\ cexit = 1
        /\ nquery = 0 /\ cout = <<>> /\ tick = 0
        /\ Len(cerr) = 1

C5_Witness ==
    cpc = "exited" /\ args.json /\ args.interval.none /\ cexit = 1

\* C6: in watch mode a KeyboardInterrupt during the fetch, the rendering
\* or the sleep ends the loop with 0 (exit status 0); after it no tick
\* begins, nothing is queried and nothing is written.
C6_InterruptEndsLoop ==
    /\ []((interrupted # "" /\ tick > 0) => (cpc = "exited" /\ cexit = 0))
    /\ [][(interrupted # "" /\ tick > 0) =>
            (cout' = cout /\ cerr' = cerr /\ tick' = tick
             /\ nquery' = nquery)]_vars

C6_Witness ==
    /\ interrupted = "render" /\ tick = MaxTicks /\ cpc = "exited"
    /\ written >= 1

\* The interval requested on the command line.
Requested == IF args.interval.none THEN DefaultInterval ELSE args.interval.val

\* C9: in watch mode the interval I is the requested one raised to 0.1 s,
\* and after each tick's query and render the loop sleeps max(0, I - the
\* time they took): never a negative time, and not at all when they took
\* I or more.
C9_SleepsRestOfInterval ==
    (cpc # "main" /\ Requested > 0) =>
        LET I == IF Requested < MinInterval THEN MinInterval ELSE Requested
        IN /\ interval = I
           /\ \A i \in 1..Len(sleeps) :
                  /\ sleeps[i].slept <=> sleeps[i].query_duration < I
                  /\ sleeps[i].slept =>
                         sleeps[i].sleep_duration = I - sleeps[i].query_duration
           /\ cpc = "render" => now - query_start = took
           /\ (cpc = "sleep" \/ (cpc = "loop" /\ tick > 0)) =>
                  sleeps[Len(sleeps)].query_duration = took

C9_Witness ==
    /\ ~args.interval.none /\ args.interval.val = 1
    /\ Len(sleeps) = 2
    /\ sleeps[1].slept /\ sleeps[1].sleep_duration = MinInterval
    /\ ~sleeps[2].slept /\ sleeps[2].query_duration > MinInterval

\* What tick t wrote of its snapshot.
SnapshotLines(t) ==
    {cout[i] : i \in {j \in 1..Len(cout) :
                         cout[j].tick = t /\ cout[j].kind \in {"header", "gpu"}}}

Absent(t) == SnapshotLines(t) = {}

Complete(t) ==
    \E h \in SnapshotLines(t) :
        /\ h.kind = "header"
        /\ \A k \in 1..h.of :
               \E g \in SnapshotLines(t) : g.kind = "gpu" /\ g.idx = k

\* C10 as stated: when the watch loop is cancelled, each tick's snapshot
\* was written completely or not at all, wherever the interrupt arrived.
C10_NoPartialSnapshot ==
    (cpc = "exited" /\ interrupted # "" /\ tick > 0) =>
        \A t \in 1..tick : Absent(t) \/ Complete(t)

\* C10 as amended: when the interrupt arrives during the fetch, nothing
\* of that tick's snapshot is written; when it arrives during the sleep,
\* that tick's snapshot was written completely; either way every earlier
\* tick's snapshot was written completely.
C10_NoPartialSnapshotOutsideRender ==
    (cpc = "exited" /\ interrupted \in {"fetch", "sleep"} /\ tick > 0) =>
        /\ \A t \in 1..(tick - 1) : Complete(t)
        /\ interrupted = "fetch" => Absent(tick)
        /\ interrupted = "sleep" => Complete(tick)

C10_Witness ==
    /\ cpc = "exited" /\ interrupted = "sleep" /\ tick = MaxTicks
    /\ gpu_stats.n = MaxDevices

====
